---- MODULE Spec2Model ----
(***************************************************************************)
(* Model of app.py: the loader (read_uploaded_file and the data-source     *)
(* selection of the script), the normalizer (add_derived_columns) and the  *)
(* z-score outlier mask (zscore_outlier_mask).                             *)
(*                                                                         *)
(* A cell of a table is a record [t, v]: a number, a string (a sequence of *)
(* one-character strings, so that strip/lower/parsing can be computed) or  *)
(* the missing marker NaN.  A DataFrame is a record [columns, data, n]:    *)
(* the ordered column names, one sequence of n cells per column name.      *)
(***************************************************************************)
EXTENDS Integers, Sequences, FiniteSets, TLC

\* ------------------------------------------------------------------ bounds
MaxRows == 1
MaxApply == 2
MaxLen == 5
MaxTwiceThreshold == 8
FileSize == 1

\* ------------------------------------------------------------------- cells
NaN == [t |-> "nan", v |-> 0]
Num(n) == [t |-> "num", v |-> n]
Str(s) == [t |-> "str", v |-> s]
IsNaN(c) == c.t = "nan"

None == [t |-> "none", v |-> 0]

Digits == <<"0", "1", "2", "3", "4", "5", "6", "7", "8", "9">>
UpperCase == <<"A", "B", "C", "D", "E", "F", "G", "H", "I", "J", "K", "L", "M",
               "N", "O", "P", "Q", "R", "S", "T", "U", "V", "W", "X", "Y", "Z">>
LowerCase == <<"a", "b", "c", "d", "e", "f", "g", "h", "i", "j", "k", "l", "m",
               "n", "o", "p", "q", "r", "s", "t", "u", "v", "w", "x", "y", "z">>
Whitespace == {" ", "\t", "\n"}

IndexOf(seq, x) == CHOOSE i \in 1..Len(seq) : seq[i] = x
InSeq(seq, x) == \E i \in 1..Len(seq) : seq[i] = x

\* str.lower(), one character
LowerChar(ch) == IF InSeq(UpperCase, ch) THEN LowerCase[IndexOf(UpperCase, ch)] ELSE ch
\* str.lower()
lower(s) == [i \in 1..Len(s) |-> LowerChar(s[i])]

\* str.strip(): drops the leading and the trailing whitespace
RECURSIVE lstrip(_)
lstrip(s) == IF s # <<>> /\ Head(s) \in Whitespace THEN lstrip(Tail(s)) ELSE s
RECURSIVE rstrip(_)
rstrip(s) ==
    IF s # <<>> /\ s[Len(s)] \in Whitespace THEN rstrip(SubSeq(s, 1, Len(s) - 1)) ELSE s
strip(s) == rstrip(lstrip(s))

\* str(n) of an integer
RECURSIVE NatToStr(_)
NatToStr(n) == IF n < 10 THEN <<Digits[n + 1]>> ELSE NatToStr(n \div 10) \o <<Digits[(n % 10) + 1]>>
IntToStr(n) == IF n < 0 THEN <<"-">> \o NatToStr(0 - n) ELSE NatToStr(n)

\* the numeric parse of a token: an optional sign and at least one digit
AllDigits(s) == s # <<>> /\ \A i \in 1..Len(s) : InSeq(Digits, s[i])
RECURSIVE DigitsValue(_)
DigitsValue(s) ==
    IF s = <<>> THEN 0
    ELSE 10 * DigitsValue(SubSeq(s, 1, Len(s) - 1)) + (IndexOf(Digits, s[Len(s)]) - 1)
IsNumeric(s) ==
    LET u == strip(s)
    IN  \/ AllDigits(u)
        \/ u # <<>> /\ Head(u) \in {"-", "+"} /\ AllDigits(Tail(u))
ParseNum(s) ==
    LET u == strip(s)
    IN  IF Head(u) = "-" THEN 0 - DigitsValue(Tail(u))
        ELSE IF Head(u) = "+" THEN DigitsValue(Tail(u))
        ELSE DigitsValue(u)

\* pd.to_numeric(..., errors="coerce"), one cell
to_numeric(c) ==
    IF c.t = "num" THEN c
    ELSE IF c.t = "str" /\ IsNumeric(c.v) THEN Num(ParseNum(c.v))
    ELSE NaN

\* Series.fillna(0), one cell
fillna0(c) == IF IsNaN(c) THEN Num(0) ELSE c

\* Series.astype(str), one cell: a missing value becomes the text "nan"
astype_str(c) ==
    IF c.t = "str" THEN c.v
    ELSE IF c.t = "num" THEN IntToStr(c.v)
    ELSE <<"n", "a", "n">>

APPROVED == <<"a", "p", "p", "r", "o", "v", "e", "d">>

\* a variant that compares without trimming the surrounding whitespace
ApprovedFlag_NoStrip(c) == IF lower(astype_str(c)) = APPROVED THEN Num(1) ELSE Num(0)

\* the lambda of Loan_Approved, applied to the stripped, lower-cased text
ApprovedFlag(c) == IF lower(strip(astype_str(c))) = APPROVED THEN Num(1) ELSE Num(0)

\* -------------------------------------------------------------- DataFrames
HasCol(d, c) == InSeq(d.columns, c)

\* a variant that puts a new column in front of the existing ones
SetCol_Prepend(d, c, series) ==
    [columns |-> IF HasCol(d, c) THEN d.columns ELSE <<c>> \o d.columns,
     n |-> d.n,
     data |-> [k \in (DOMAIN d.data) \cup {c} |-> IF k = c THEN series ELSE d.data[k]]]

\* a variant that appends the column even when the name is already there
SetCol_AlwaysAppend(d, c, series) ==
    [columns |-> Append(d.columns, c),
     n |-> d.n,
     data |-> [k \in (DOMAIN d.data) \cup {c} |-> IF k = c THEN series ELSE d.data[k]]]

\* df[c] = series: an existing column is replaced in place, a new one is appended
SetCol(d, c, series) ==
    [columns |-> IF HasCol(d, c) THEN d.columns ELSE Append(d.columns, c),
     n |-> d.n,
     data |-> [k \in (DOMAIN d.data) \cup {c} |-> IF k = c THEN series ELSE d.data[k]]]

\* elementwise map of a Series
MapSeries(Op(_), series) == [r \in 1..Len(series) |-> Op(series[r])]

NUMERIC_COLS == <<"ApplicantIncome", "CoapplicantIncome", "LoanAmount", "Age",
                  "Loan_Term_months", "Credit_History">>

\* line 59: df[col] = pd.to_numeric(df[col], errors="coerce")
CoerceColumn(d, c) == SetCol(d, c, MapSeries(to_numeric, d.data[c]))

\* line 60: the operands df.get(name, 0).fillna(0); the int default has no fillna
GetFillna(d, c) ==
    IF HasCol(d, c) THEN MapSeries(fillna0, d.data[c]) ELSE "AttributeError"

\* line 60: the elementwise sum of the two filled Series
AddSeries(a, b) ==
    [r \in 1..Len(a) |-> IF IsNaN(a[r]) \/ IsNaN(b[r]) THEN NaN ELSE Num(a[r].v + b[r].v)]

\* a variant that fills the income columns themselves before summing them
AssignTotalIncome_FillInPlace(d) ==
    LET a == GetFillna(d, "ApplicantIncome")
        b == GetFillna(d, "CoapplicantIncome")
    IN  SetCol(SetCol(SetCol(d, "ApplicantIncome", a), "CoapplicantIncome", b),
               "TotalIncome", AddSeries(a, b))

\* line 60: df["TotalIncome"] = ...
AssignTotalIncome(d) ==
    SetCol(d, "TotalIncome",
           AddSeries(GetFillna(d, "ApplicantIncome"), GetFillna(d, "CoapplicantIncome")))

\* line 60 raises when either operand is the int default
TotalIncomeRaises(d) == ~HasCol(d, "ApplicantIncome") \/ ~HasCol(d, "CoapplicantIncome")

\* line 62: df["Loan_Approved"] = ...
AssignLoanApproved(d) ==
    SetCol(d, "Loan_Approved", MapSeries(ApprovedFlag, d.data["Loan_Status"]))

\* ------------------------------------------------------- the input tables
s_x == <<"x">>
s_7 == <<"7">>
s_12 == <<"1", "2">>
s_Approved == <<"A", "p", "p", "r", "o", "v", "e", "d">>
s_ApprovedPadded == <<" ", "A", "p", "p", "r", "o", "v", "e", "d", " ">>
s_Approve == <<"A", "p", "p", "r", "o", "v", "e">>
s_APPROVED == <<"A", "P", "P", "R", "O", "V", "E", "D">>
s_Rejected == <<"R", "e", "j", "e", "c", "t", "e", "d">>

CellDomain(c) ==
    CASE c = "ApplicantIncome" -> {Num(5), Str(s_7), Str(s_x), NaN}
      [] c = "CoapplicantIncome" -> {Num(2), Str(s_12), NaN}
      [] c = "LoanAmount" -> {Num(100), Str(s_x)}
      [] c = "Loan_Status" -> {Str(s_ApprovedPadded), Str(s_APPROVED), Str(s_Approve),
                               Str(s_Rejected), Str(<<>>), NaN, Num(1)}
      [] c = "TotalIncome" -> {Num(9), NaN}
      [] OTHER -> {Str(s_x)}

ColumnLists ==
    { <<"ApplicantIncome", "CoapplicantIncome">>,
      <<"ApplicantIncome", "CoapplicantIncome", "Loan_Status">>,
      <<"Loan_Status", "Customer_ID", "CoapplicantIncome", "ApplicantIncome">>,
      <<"ApplicantIncome", "LoanAmount">>,
      <<"CoapplicantIncome", "Loan_Status">>,
      <<"Loan_Status">>,
      <<"TotalIncome", "ApplicantIncome", "CoapplicantIncome">>,
      <<"Loan_Approved", "Loan_Status", "ApplicantIncome", "CoapplicantIncome">>,
      <<"ApplicantIncome", "CoapplicantIncome", "Loan_Approved">> }

\* the rows a table with these columns may hold: one cell per column
RECURSIVE RowSet(_)
RowSet(cols) ==
    IF cols = <<>> THEN { <<>> }
    ELSE { <<cell>> \o rest : cell \in CellDomain(Head(cols)), rest \in RowSet(Tail(cols)) }

\* pd.DataFrame(rows, columns=cols)
DataFrame(rows, cols) ==
    [columns |-> cols,
     n |-> Len(rows),
     data |-> [c \in {cols[k] : k \in 1..Len(cols)} |->
                  [r \in 1..Len(rows) |-> rows[r][IndexOf(cols, c)]]]]

\* the tables with these columns and n rows
Tables(cols, n) == { DataFrame(rows, cols) : rows \in [1..n -> RowSet(cols)] }

\* ------------------------------------------------------ the builtin fixture
s_C001 == <<"C", "0", "0", "1">>
s_Male == <<"M", "a", "l", "e">>
s_Married == <<"M", "a", "r", "r", "i", "e", "d">>
s_Graduate == <<"G", "r", "a", "d", "u", "a", "t", "e">>
s_Urban == <<"U", "r", "b", "a", "n">>
s_C002 == <<"C", "0", "0", "2">>
s_Female == <<"F", "e", "m", "a", "l", "e">>
s_Single == <<"S", "i", "n", "g", "l", "e">>
s_Semiurban == <<"S", "e", "m", "i", "u", "r", "b", "a", "n">>
s_C003 == <<"C", "0", "0", "3">>
s_NotGraduate == <<"N", "o", "t", " ", "G", "r", "a", "d", "u", "a", "t", "e">>
s_Rural == <<"R", "u", "r", "a", "l">>
s_C004 == <<"C", "0", "0", "4">>
s_C005 == <<"C", "0", "0", "5">>
s_C006 == <<"C", "0", "0", "6">>
s_C007 == <<"C", "0", "0", "7">>
s_C008 == <<"C", "0", "0", "8">>
s_C009 == <<"C", "0", "0", "9">>
s_C010 == <<"C", "0", "1", "0">>

SAMPLE_DATA ==
    <<
      <<Str(s_C001), Str(s_Male), Num(35), Str(s_Married), Str(s_Graduate), Num(5400), Num(1500), Num(128), Num(360), Num(1), Str(s_Urban), Str(s_Approved)>>,
      <<Str(s_C002), Str(s_Female), Num(29), Str(s_Single), Str(s_Graduate), Num(3200), Num(0), Num(66), Num(360), Num(1), Str(s_Semiurban), Str(s_Rejected)>>,
      <<Str(s_C003), Str(s_Male), Num(42), Str(s_Married), Str(s_NotGraduate), Num(4300), Num(1200), Num(100), Num(180), Num(0), Str(s_Rural), Str(s_Rejected)>>,
      <<Str(s_C004), Str(s_Male), Num(28), Str(s_Single), Str(s_Graduate), Num(6000), Num(0), Num(141), Num(360), Num(1), Str(s_Urban), Str(s_Approved)>>,
      <<Str(s_C005), Str(s_Female), Num(33), Str(s_Married), Str(s_Graduate), Num(2500), Num(2500), Num(85), Num(240), Num(1), Str(s_Semiurban), Str(s_Approved)>>,
      <<Str(s_C006), Str(s_Male), Num(45), Str(s_Married), Str(s_NotGraduate), Num(4000), Num(0), Num(115), Num(360), Num(0), Str(s_Rural), Str(s_Rejected)>>,
      <<Str(s_C007), Str(s_Female), Num(31), Str(s_Single), Str(s_Graduate), Num(3500), Num(1200), Num(90), Num(360), Num(1), Str(s_Urban), Str(s_Approved)>>,
      <<Str(s_C008), Str(s_Male), Num(50), Str(s_Married), Str(s_Graduate), Num(8000), Num(0), Num(200), Num(360), Num(1), Str(s_Urban), Str(s_Approved)>>,
      <<Str(s_C009), Str(s_Female), Num(27), Str(s_Single), Str(s_Graduate), Num(2500), Num(0), Num(75), Num(180), Num(0), Str(s_Rural), Str(s_Rejected)>>,
      <<Str(s_C010), Str(s_Male), Num(39), Str(s_Married), Str(s_Graduate), Num(4200), Num(1500), Num(130), Num(360), Num(1), Str(s_Semiurban), Str(s_Approved)>>
    >>

DEFAULT_COLS ==
    <<"Customer_ID", "Gender", "Age", "Marital_Status", "Education", "ApplicantIncome",
      "CoapplicantIncome", "LoanAmount", "Loan_Term_months", "Credit_History",
      "Property_Area", "Loan_Status">>

\* lines 37-38
load_sample_df == DataFrame(SAMPLE_DATA, DEFAULT_COLS)

\* ------------------------------------------------------- the uploaded files
\* the column lists of the uploaded tables
UploadColumnLists ==
    { <<"ApplicantIncome", "CoapplicantIncome", "LoanAmount">>,
      <<"Loan_Status">> }

\* an uploaded stream: the table it holds, whether pd.read_csv and pd.read_excel
\* can parse it, and the position of the stream
UploadedFile(table, csv, excel) == [table |-> table, csv |-> csv, excel |-> excel, pos |-> 0]

\* where a parse that failed may leave the stream
PositionsAfterFailure == 0..FileSize

\* a parse attempt reads the stream and leaves it at position p
ReadTo(f, p) == [f EXCEPT !.pos = p]

\* a variant of the handler that does not reposition the stream
Seek_NoReset(f, p) == f

\* line 45: uploaded_file.seek(p)
Seek(f, p) == [f EXCEPT !.pos = p]

\* the exception an attempt raises; context is the exception being handled
Exception(name, context) == [name |-> name, context |-> context]
NoException == Exception("none", "none")

\* lines 48-49: except Exception as e: raise e  (first: the CSV failure being
\* handled, e: the spreadsheet failure)
Reraise_First(first, e) == first
Reraise(first, e) == e

\* line 95: the dataset bound after a load failure
FallbackDataset_None == None
FallbackDataset == load_sample_df

\* ------------------------------------------------------------------ state
VARIABLES
    pc,           \* the position of the running code
    caller,       \* who called add_derived_columns: "script" or "harness"
    arg_obj,      \* the DataFrame object the caller passed to add_derived_columns
    df_obj,       \* the DataFrame object the local name df is bound to
    aliased,      \* whether the local df is still the caller's object
    col_i,        \* the index of the loop of line 57 into NUMERIC_COLS
    ret,          \* what add_derived_columns returned, or the error it raised
    arg_at_call,  \* the value of the caller's object when the call began
    first_out,    \* the previous output, when the output is normalized again
    napply,       \* the number of calls of add_derived_columns so far
    source,       \* the radio button of line 84
    uploaded,     \* the uploaded stream, or None
    df,           \* the script's name df, or None while unbound
    nbind,        \* the number of times the script bound df before line 101
    events,       \* the operations read_uploaded_file performed on the stream
    exc,          \* the exception being handled or propagated
    reported,     \* the error shown by st.sidebar.error, or "none"
    series,       \* zscore_outlier_mask: the Series passed in
    threshold2,   \* zscore_outlier_mask: twice the threshold
    s,            \* zscore_outlier_mask: series.dropna()
    mean,         \* zscore_outlier_mask: s.mean()
    std,          \* zscore_outlier_mask: s.std(ddof=0)
    z,            \* zscore_outlier_mask: (series - mean) / std
    mask,         \* zscore_outlier_mask: the returned mask, or None
    divisions     \* zscore_outlier_mask: the divisors of the divisions performed

normVars == <<caller, arg_obj, df_obj, aliased, col_i, ret, arg_at_call, first_out, napply>>
scriptVars == <<source, uploaded, df, nbind, events, exc, reported>>
zVars == <<series, threshold2, s, mean, std, z, mask, divisions>>

vars == <<pc, normVars, scriptVars, zVars>>

ScriptIdle ==
    /\ source = "none"
    /\ uploaded = None
    /\ df = None
    /\ nbind = 0
    /\ events = <<>>
    /\ exc = NoException
    /\ reported = "none"

NormIdle ==
    /\ caller = "none"
    /\ arg_obj = None
    /\ df_obj = None
    /\ aliased = FALSE
    /\ col_i = 0
    /\ ret = None
    /\ arg_at_call = None
    /\ first_out = None
    /\ napply = 0

ZIdle ==
    /\ series = <<>>
    /\ threshold2 = 0
    /\ s = <<>>
    /\ mean = None
    /\ std = None
    /\ z = None
    /\ mask = None
    /\ divisions = <<>>

\* ---------------------------------------------- add_derived_columns (55-63)
\* a mutation of the object bound to df is seen by the caller when df is its object
Mutate(new) ==
    /\ df_obj' = new
    /\ arg_obj' = IF aliased THEN new ELSE arg_obj

\* line 56: df = df.copy()
AdcCopy ==
    /\ pc = "adc56"
    /\ df_obj' = arg_obj
    /\ aliased' = FALSE
    /\ col_i' = 1
    /\ pc' = "adc57"
    /\ UNCHANGED <<caller, arg_obj, ret, arg_at_call, first_out, napply>>
    /\ UNCHANGED <<scriptVars, zVars>>

\* lines 57-59: one iteration of the loop over the known numeric columns
AdcCoerce ==
    /\ pc = "adc57"
    /\ col_i <= Len(NUMERIC_COLS)
    /\ LET c == NUMERIC_COLS[col_i]
       IN  Mutate(IF HasCol(df_obj, c) THEN CoerceColumn(df_obj, c) ELSE df_obj)
    /\ col_i' = col_i + 1
    /\ pc' = IF col_i = Len(NUMERIC_COLS) THEN "adc60" ELSE "adc57"
    /\ UNCHANGED <<caller, aliased, ret, arg_at_call, first_out, napply>>
    /\ UNCHANGED <<scriptVars, zVars>>

\* line 60, when both income columns are present
AdcTotalIncome ==
    /\ pc = "adc60"
    /\ ~TotalIncomeRaises(df_obj)
    /\ Mutate(AssignTotalIncome(df_obj))
    /\ pc' = "adc61"
    /\ UNCHANGED <<caller, aliased, col_i, ret, arg_at_call, first_out, napply>>
    /\ UNCHANGED <<scriptVars, zVars>>

\* line 60, when df.get returns the int 0: 0.fillna raises AttributeError
AdcTotalIncomeRaise ==
    /\ pc = "adc60"
    /\ TotalIncomeRaises(df_obj)
    /\ ret' = "AttributeError"
    /\ pc' = IF caller = "script" THEN "crashed" ELSE "adc_raised"
    /\ UNCHANGED <<caller, arg_obj, df_obj, aliased, col_i, arg_at_call, first_out, napply>>
    /\ UNCHANGED <<scriptVars, zVars>>

\* lines 61-62
AdcLoanApproved ==
    /\ pc = "adc61"
    /\ Mutate(IF HasCol(df_obj, "Loan_Status") THEN AssignLoanApproved(df_obj) ELSE df_obj)
    /\ pc' = "adc63"
    /\ UNCHANGED <<caller, aliased, col_i, ret, arg_at_call, first_out, napply>>
    /\ UNCHANGED <<scriptVars, zVars>>

\* line 63: return df
AdcReturn ==
    /\ pc = "adc63"
    /\ ret' = df_obj
    /\ pc' = IF caller = "script" THEN "s101_returned" ELSE "returned"
    /\ UNCHANGED <<caller, arg_obj, df_obj, aliased, col_i, arg_at_call, first_out, napply>>
    /\ UNCHANGED <<scriptVars, zVars>>

\* the call: the parameter df is bound to the caller's object
CallAdc(d) ==
    /\ arg_obj' = d
    /\ df_obj' = d
    /\ aliased' = TRUE
    /\ col_i' = 0
    /\ arg_at_call' = d
    /\ napply' = napply + 1
    /\ pc' = "adc56"

\* normalize(normalize(d)): the output is passed to add_derived_columns again
Reapply ==
    /\ pc = "returned"
    /\ napply < MaxApply
    /\ CallAdc(ret)
    /\ first_out' = ret
    /\ UNCHANGED <<caller, ret>>
    /\ UNCHANGED <<scriptVars, zVars>>

InitNorm ==
    /\ pc = "adc56"
    /\ caller = "harness"
    /\ \E cols \in ColumnLists, n \in 0..MaxRows : arg_obj \in Tables(cols, n)
    /\ df_obj = arg_obj
    /\ aliased = TRUE
    /\ col_i = 0
    /\ ret = None
    /\ arg_at_call = arg_obj
    /\ first_out = None
    /\ napply = 1
    /\ ScriptIdle
    /\ ZIdle

NextNorm ==
    \/ AdcCopy
    \/ AdcCoerce
    \/ AdcTotalIncome
    \/ AdcTotalIncomeRaise
    \/ AdcLoanApproved
    \/ AdcReturn
    \/ Reapply

SpecNorm == InitNorm /\ [][NextNorm]_vars

\* ------------------------------------------ read_uploaded_file (lines 41-49)
Log(op, ok) == Append(events, [op |-> op, pos |-> uploaded.pos, ok |-> ok])

\* line 43: pd.read_csv parses the stream and its result is returned to line 92
RufReadCsvOk ==
    /\ pc = "r43"
    /\ uploaded.csv
    /\ events' = Log("read_csv", TRUE)
    /\ uploaded' = ReadTo(uploaded, FileSize)
    /\ df' = uploaded.table
    /\ nbind' = nbind + 1
    /\ pc' = "s101"
    /\ UNCHANGED <<source, exc, reported, normVars, zVars>>

\* lines 43-44: pd.read_csv raises and the handler is entered
RufReadCsvFail ==
    /\ pc = "r43"
    /\ ~uploaded.csv
    /\ events' = Log("read_csv", FALSE)
    /\ \E p \in PositionsAfterFailure : uploaded' = ReadTo(uploaded, p)
    /\ exc' = Exception("read_csv failure", "none")
    /\ pc' = "r45"
    /\ UNCHANGED <<source, df, nbind, reported, normVars, zVars>>

\* line 45: uploaded_file.seek(0)
RufSeek ==
    /\ pc = "r45"
    /\ events' = Log("seek", TRUE)
    /\ uploaded' = Seek(uploaded, 0)
    /\ pc' = "r47"
    /\ UNCHANGED <<source, df, nbind, exc, reported, normVars, zVars>>

\* line 47: pd.read_excel parses the stream and its result is returned to line 92
RufReadExcelOk ==
    /\ pc = "r47"
    /\ uploaded.excel
    /\ events' = Log("read_excel", TRUE)
    /\ uploaded' = ReadTo(uploaded, FileSize)
    /\ df' = uploaded.table
    /\ nbind' = nbind + 1
    /\ exc' = NoException
    /\ pc' = "s101"
    /\ UNCHANGED <<source, reported, normVars, zVars>>

\* lines 47-49: pd.read_excel raises while the CSV failure is being handled, and
\* the handler raises e out of the function, to line 93
RufReadExcelFail ==
    /\ pc = "r47"
    /\ ~uploaded.excel
    /\ events' = Log("read_excel", FALSE)
    /\ \E p \in PositionsAfterFailure : uploaded' = ReadTo(uploaded, p)
    /\ exc' = Reraise(exc, Exception("read_excel failure", exc.name))
    /\ pc' = "s93"
    /\ UNCHANGED <<source, df, nbind, reported, normVars, zVars>>

\* -------------------------------------------------- the script (lines 84-105)
\* line 84: the radio button
ChooseSource ==
    /\ pc = "s84"
    /\ source' \in {"Sample dataset", "Upload CSV/Excel"}
    /\ pc' = "s86"
    /\ UNCHANGED <<uploaded, df, nbind, events, exc, reported, normVars, zVars>>

\* lines 86-87
LoadSample ==
    /\ pc = "s86"
    /\ source = "Sample dataset"
    /\ df' = load_sample_df
    /\ nbind' = nbind + 1
    /\ pc' = "s101"
    /\ UNCHANGED <<source, uploaded, events, exc, reported, normVars, zVars>>

\* lines 88-89: the file uploader holds a file or nothing
FileUploader ==
    /\ pc = "s86"
    /\ source # "Sample dataset"
    /\ \/ uploaded' = None
       \/ \E cols \in UploadColumnLists, n \in 0..MaxRows, csv \in BOOLEAN, excel \in BOOLEAN :
              \E table \in Tables(cols, n) : uploaded' = UploadedFile(table, csv, excel)
    /\ pc' = "s90"
    /\ UNCHANGED <<source, df, nbind, events, exc, reported, normVars, zVars>>

\* lines 90-92: a file was uploaded, read_uploaded_file is called
CallReadUploadedFile ==
    /\ pc = "s90"
    /\ uploaded # None
    /\ pc' = "r43"
    /\ UNCHANGED <<scriptVars, normVars, zVars>>

\* lines 96-98: no file, the sample dataset is used
NoFileUploaded ==
    /\ pc = "s90"
    /\ uploaded = None
    /\ df' = load_sample_df
    /\ nbind' = nbind + 1
    /\ pc' = "s101"
    /\ UNCHANGED <<source, uploaded, events, exc, reported, normVars, zVars>>

\* lines 93-95: the error of read_uploaded_file is shown and the sample is used
ExceptFallback ==
    /\ pc = "s93"
    /\ reported' = exc.name
    /\ exc' = NoException
    /\ df' = FallbackDataset
    /\ nbind' = nbind + 1
    /\ pc' = "s101"
    /\ UNCHANGED <<source, uploaded, events, normVars, zVars>>

\* line 101, the call: add_derived_columns(df)
Preprocess ==
    /\ pc = "s101"
    /\ CallAdc(df)
    /\ caller' = "script"
    /\ UNCHANGED <<ret, first_out, scriptVars, zVars>>

\* line 101, the assignment: df = <the returned table>
PreprocessAssign ==
    /\ pc = "s101_returned"
    /\ df' = ret
    /\ pc' = "s104"
    /\ UNCHANGED <<source, uploaded, nbind, events, exc, reported, normVars, zVars>>

\* lines 104-105: the table is displayed
Display ==
    /\ pc = "s104"
    /\ pc' = "displayed"
    /\ UNCHANGED <<scriptVars, normVars, zVars>>

Init ==
    /\ pc = "s84"
    /\ ScriptIdle
    /\ NormIdle
    /\ ZIdle

Next ==
    \/ ChooseSource
    \/ LoadSample
    \/ FileUploader
    \/ CallReadUploadedFile
    \/ NoFileUploaded
    \/ RufReadCsvOk
    \/ RufReadCsvFail
    \/ RufSeek
    \/ RufReadExcelOk
    \/ RufReadExcelFail
    \/ ExceptFallback
    \/ Preprocess
    \/ AdcCopy
    \/ AdcCoerce
    \/ AdcTotalIncome
    \/ AdcTotalIncomeRaise
    \/ AdcLoanApproved
    \/ AdcReturn
    \/ PreprocessAssign
    \/ Display

Spec == Init /\ [][Next]_vars

\* --------------------------------------- zscore_outlier_mask (lines 66-73)
\* Numbers are exact: the mean is the fraction num/den, the standard deviation is
\* held by its square sq_num/sq_den, and a z-score by the deviation dev_num/dev_den
\* and the standard deviation it was divided by.
RECURSIVE Sum(_)
Sum(vs) == IF vs = <<>> THEN 0 ELSE Head(vs) + Sum(Tail(vs))

\* line 67: series.dropna(), as the sequence of the values left
RECURSIVE dropna(_)
dropna(ser) ==
    IF ser = <<>> THEN <<>>
    ELSE IF IsNaN(Head(ser)) THEN dropna(Tail(ser))
    ELSE <<Head(ser).v>> \o dropna(Tail(ser))

\* line 68: Series.mean(): NaN for an empty Series
Mean(vs) ==
    IF vs = <<>> THEN NaN ELSE [t |-> "num", num |-> Sum(vs), den |-> Len(vs)]

\* Series.std(ddof): the sum of the squared deviations from the mean, over
\* (count - ddof); NaN when count - ddof is not positive
StdDdof(vs, ddof) ==
    LET n == Len(vs)
        S == Sum(vs)
    IN  IF n - ddof <= 0 THEN NaN
        ELSE [t |-> "num",
              sq_num |-> Sum([k \in 1..n |-> (n * vs[k] - S) * (n * vs[k] - S)]),
              sq_den |-> n * n * (n - ddof)]

\* a variant with the library's default, the sample standard deviation
Std_Sample(vs) == StdDdof(vs, 1)

\* line 69: s.std(ddof=0)
Std(vs) == StdDdof(vs, 0)

\* a variant of the guard that forgets the zero standard deviation
StdZeroOrNaN_OnlyNaN(sd) == IsNaN(sd)

\* line 70: std == 0 or pd.isna(std)
StdZeroOrNaN(sd) == IF IsNaN(sd) THEN TRUE ELSE sd.sq_num = 0

\* line 72: one element of (series - mean) / std
ZScore(c, m, sd) ==
    IF IsNaN(c) THEN NaN
    ELSE [t |-> "num", dev_num |-> m.den * c.v - m.num, dev_den |-> m.den, std |-> sd]

\* line 73: one element of z.abs() > threshold, the threshold being thr2 / 2;
\* both sides are squared, and a NaN compares False
Exceeds(zr, thr2) ==
    /\ ~IsNaN(zr)
    /\ 4 * zr.dev_num * zr.dev_num * zr.std.sq_den
           > thr2 * thr2 * zr.dev_den * zr.dev_den * zr.std.sq_num

SeriesValues == {NaN, Num(1), Num(2), Num(100)}

\* line 67
ZDropna ==
    /\ pc = "z67"
    /\ s' = dropna(series)
    /\ pc' = "z68"
    /\ UNCHANGED <<series, threshold2, mean, std, z, mask, divisions, normVars, scriptVars>>

\* line 68
ZMean ==
    /\ pc = "z68"
    /\ mean' = Mean(s)
    /\ pc' = "z69"
    /\ UNCHANGED <<series, threshold2, s, std, z, mask, divisions, normVars, scriptVars>>

\* line 69
ZStd ==
    /\ pc = "z69"
    /\ std' = Std(s)
    /\ pc' = "z70"
    /\ UNCHANGED <<series, threshold2, s, mean, z, mask, divisions, normVars, scriptVars>>

\* lines 70-71: the all-False mask is returned
ZReturnEmpty ==
    /\ pc = "z70"
    /\ StdZeroOrNaN(std)
    /\ mask' = [r \in 1..Len(series) |-> FALSE]
    /\ pc' = "z_returned"
    /\ UNCHANGED <<series, threshold2, s, mean, std, z, divisions, normVars, scriptVars>>

\* line 72: every non-missing element is divided by std
ZDivide ==
    /\ pc = "z70"
    /\ ~StdZeroOrNaN(std)
    /\ z' = [r \in 1..Len(series) |-> ZScore(series[r], mean, std)]
    /\ divisions' = IF \E r \in 1..Len(series) : ~IsNaN(series[r])
                    THEN Append(divisions, std) ELSE divisions
    /\ pc' = "z73"
    /\ UNCHANGED <<series, threshold2, s, mean, std, mask, normVars, scriptVars>>

\* line 73
ZCompare ==
    /\ pc = "z73"
    /\ mask' = [r \in 1..Len(series) |-> Exceeds(z[r], threshold2)]
    /\ pc' = "z_returned"
    /\ UNCHANGED <<series, threshold2, s, mean, std, z, divisions, normVars, scriptVars>>

InitZ ==
    /\ pc = "z67"
    /\ \E n \in 0..MaxLen : series \in [1..n -> SeriesValues]
    /\ threshold2 \in 1..MaxTwiceThreshold
    /\ s = <<>>
    /\ mean = None
    /\ std = None
    /\ z = None
    /\ mask = None
    /\ divisions = <<>>
    /\ NormIdle
    /\ ScriptIdle

NextZ ==
    \/ ZDropna
    \/ ZMean
    \/ ZStd
    \/ ZReturnEmpty
    \/ ZDivide
    \/ ZCompare

SpecZ == InitZ /\ [][NextZ]_vars

\* ------------------------------------------------- claims, add_derived_columns
Returned == pc = "returned"

\* the value a coerced cell contributes to a sum: 0 for the missing marker
Safe(c) == IF IsNaN(c) THEN 0 ELSE c.v

\* an input cell that holds no number: missing, or a text that is no number
Unparseable(c) == c.t = "nan" \/ (c.t = "str" /\ ~IsNumeric(c.v))

\* C1: in every row of the output TotalIncome is the sum of the coerced
\* ApplicantIncome and CoapplicantIncome with 0 for a missing one, and the two
\* income cells keep the missing marker where the input held no number.
C1_TotalIncome ==
    Returned =>
        \A r \in 1..ret.n :
            /\ ret.data["TotalIncome"][r] =
                   Num(Safe(ret.data["ApplicantIncome"][r]) + Safe(ret.data["CoapplicantIncome"][r]))
            /\ \A c \in {"ApplicantIncome", "CoapplicantIncome"} :
                   /\ Unparseable(arg_at_call.data[c][r]) => ret.data[c][r] = NaN
                   /\ arg_at_call.data[c][r].t = "num" => ret.data[c][r] = arg_at_call.data[c][r]

\* a returned row whose ApplicantIncome was unparseable and whose CoapplicantIncome
\* was a numeric text: the sum is the coapplicant's 12
C1_Witness ==
    /\ Returned
    /\ ret.n >= 1
    /\ arg_at_call.data["ApplicantIncome"][1] = Str(s_x)
    /\ arg_at_call.data["CoapplicantIncome"][1] = Str(s_12)
    /\ ret.data["TotalIncome"][1] = Num(12)

\* the trimmed, lower-cased text of a status cell equals "approved"
IsApprovedText(c) == c.t = "str" /\ lower(strip(c.v)) = APPROVED

\* C2: when the input has Loan_Status, Loan_Approved is 1 exactly in the rows whose
\* status text, trimmed and lower-cased, is "approved", and 0 in every other row
\* (the empty text and the missing value included).
C2_LoanApproved ==
    (Returned /\ HasCol(arg_at_call, "Loan_Status")) =>
        \A r \in 1..ret.n :
            ret.data["Loan_Approved"][r] =
                IF IsApprovedText(arg_at_call.data["Loan_Status"][r]) THEN Num(1) ELSE Num(0)

\* a returned row whose status is " Approved " and whose flag is 1
C2_Witness ==
    /\ Returned
    /\ HasCol(arg_at_call, "Loan_Status")
    /\ ret.n >= 1
    /\ arg_at_call.data["Loan_Status"][1] = Str(s_ApprovedPadded)
    /\ ret.data["Loan_Approved"][1] = Num(1)

\* C3: normalizing the output of a normalization returns that output again:
\* same column names and order, same rows, same cells.
C3_Idempotent == (Returned /\ napply >= 2) => ret = first_out

\* a second normalization has returned a table with a coerced cell and both
\* derived columns
C3_Witness ==
    /\ Returned
    /\ napply = 2
    /\ ret.n >= 1
    /\ HasCol(ret, "Loan_Approved")
    /\ ret.data["ApplicantIncome"][1] = Num(7)

\* C6: a table that lacks ApplicantIncome or CoapplicantIncome is normalized
\* without an error being raised.
C6_ToleratesMissingIncome ==
    (~HasCol(arg_at_call, "ApplicantIncome") \/ ~HasCol(arg_at_call, "CoapplicantIncome"))
        => pc # "adc_raised"

\* C7 as stated: the output's columns are the input's, then TotalIncome, then
\* Loan_Approved exactly when the input has Loan_Status; the input is unmodified.
C7_AsStated ==
    /\ arg_obj = arg_at_call
    /\ Returned =>
           ret.columns = arg_at_call.columns \o <<"TotalIncome">>
                           \o (IF HasCol(arg_at_call, "Loan_Status") THEN <<"Loan_Approved">> ELSE <<>>)

\* the derived columns the call adds to a table: those it computes and the
\* table does not have yet
NewColumns(d) ==
    (IF HasCol(d, "TotalIncome") THEN <<>> ELSE <<"TotalIncome">>)
        \o (IF HasCol(d, "Loan_Status") /\ ~HasCol(d, "Loan_Approved")
            THEN <<"Loan_Approved">> ELSE <<>>)

\* C7, amended: the output's columns are the input's columns in their order,
\* followed by TotalIncome and Loan_Approved (in that order) where the input does
\* not have them already; Loan_Approved is computed only when the input has
\* Loan_Status, so a table without Loan_Status gains no Loan_Approved; the
\* caller's table is never modified.
C7_ColumnOrder ==
    /\ arg_obj = arg_at_call
    /\ Returned =>
           /\ ret.columns = arg_at_call.columns \o NewColumns(arg_at_call)
           /\ HasCol(ret, "Loan_Approved") =>
                  (HasCol(arg_at_call, "Loan_Status") \/ HasCol(arg_at_call, "Loan_Approved"))

\* a returned table that gained both derived columns behind its own three, the
\* caller's table still holding the text it was given
C7_Witness ==
    /\ Returned
    /\ arg_at_call.columns = <<"ApplicantIncome", "CoapplicantIncome", "Loan_Status">>
    /\ ret.columns = <<"ApplicantIncome", "CoapplicantIncome", "Loan_Status",
                       "TotalIncome", "Loan_Approved">>
    /\ arg_obj.n >= 1
    /\ arg_obj.data["ApplicantIncome"][1] = Str(s_7)

\* ------------------------------------------------ claims, read_uploaded_file
\* read_uploaded_file has raised to its caller: both parse attempts failed
LoadRaised == pc = "s93"

\* C4 as stated: when both parses fail no dataset is returned and the error raised
\* to the caller is the failure of the first (CSV) attempt.
C4_AsStated == LoadRaised => (df = None /\ nbind = 0 /\ exc.name = "read_csv failure")

\* C4, amended: when both parses fail no dataset is returned and an error is raised
\* to the caller; the raised error is the failure of the second (spreadsheet)
\* attempt, which carries the CSV failure only as the context it was raised in.
C4_RaisesLastFailure ==
    /\ LoadRaised =>
           /\ df = None
           /\ nbind = 0
           /\ exc.name = "read_excel failure"
           /\ exc.context = "read_csv failure"
    /\ (Len(events) = 3 /\ ~events[1].ok /\ ~events[3].ok) =>
           (LoadRaised \/ reported = "read_excel failure")

\* both attempts were made on an uploaded stream and the error is at the caller
C4_Witness ==
    /\ LoadRaised
    /\ Len(events) = 3
    /\ events[1] = [op |-> "read_csv", pos |-> 0, ok |-> FALSE]
    /\ events[3].op = "read_excel"
    /\ ~events[3].ok
    /\ uploaded.table.n >= 1

\* C5: the CSV parse is the first operation on the stream; the spreadsheet parse
\* happens only as the third operation, after a failed CSV parse and a seek, and
\* with the stream at position 0; after a successful CSV parse its result is what
\* is returned and neither the seek nor the spreadsheet parse happens.
C5_LoaderOrder ==
    /\ events # <<>> => events[1].op = "read_csv"
    /\ \A k \in 1..Len(events) :
           /\ events[k].op = "read_csv" => k = 1
           /\ events[k].op = "seek" => (k = 2 /\ ~events[1].ok)
           /\ events[k].op = "read_excel" =>
                  (k = 3 /\ ~events[1].ok /\ events[2].op = "seek" /\ events[k].pos = 0)
    /\ (events # <<>> /\ events[1].ok) =>
           (Len(events) = 1 /\ nbind = 1 /\ exc = NoException /\ reported = "none")
    /\ (events # <<>> /\ events[1].ok /\ pc = "s101") => df = uploaded.table

\* a failed CSV parse left the stream away from its start, and the spreadsheet
\* parse then succeeded from position 0
C5_Witness ==
    /\ Len(events) = 3
    /\ events[3] = [op |-> "read_excel", pos |-> 0, ok |-> TRUE]
    /\ events[2].pos > 0
    /\ pc = "s101"

\* ------------------------------------------------------- claims, the script
BeforeCall == {"s84", "s86", "s90", "r43", "r45", "r47", "s93", "s101"}

\* C10: whichever source is chosen, exactly one dataset is bound when line 101 is
\* reached and add_derived_columns is called exactly once, on that dataset; after
\* a failed load the error has been reported and the dataset is the 10-row builtin
\* fixture, so every pass reaches line 101 with a dataset.
C10_OneDatasetOneCall ==
    /\ pc \in BeforeCall => napply = 0
    /\ pc \notin BeforeCall => (napply = 1 /\ nbind = 1 /\ arg_at_call # None)
    /\ pc = "s101" => (nbind = 1 /\ df # None)
    /\ pc \in {"adc56", "adc57", "adc60", "adc61", "adc63", "crashed"} => arg_at_call = df
    /\ pc \in {"s84", "s86", "s90", "r43", "r45", "r47", "s93"} => (nbind = 0 /\ df = None)
    /\ reported # "none" =>
           /\ reported = "read_excel failure"
           /\ pc \notin {"s84", "s86", "s90", "r43", "r45", "r47", "s93"}
           /\ arg_at_call \in {None, load_sample_df}
           /\ pc = "s101" => (df = load_sample_df /\ df.n = 10)
    /\ (source = "Sample dataset" /\ pc \notin {"s84", "s86"}) => arg_at_call \in {None, load_sample_df}
    /\ (pc = "s90" => source = "Upload CSV/Excel")

\* after a failed load the fixture was normalized: 14 columns, and the first row
\* (C001) has TotalIncome 6900 and Loan_Approved 1
C10_Witness ==
    /\ pc = "displayed"
    /\ reported # "none"
    /\ napply = 1
    /\ df.n = 10
    /\ Len(df.columns) = 14
    /\ df.data["TotalIncome"][1] = Num(6900)
    /\ df.data["Loan_Approved"][1] = Num(1)

\* ----------------------------------------------- claims, zscore_outlier_mask
ZReturned == pc = "z_returned"

\* the rows of the Series that hold a value
Present == {r \in 1..Len(series) : ~IsNaN(series[r])}

RECURSIVE SumOver(_, _)
SumOver(f, rows) ==
    IF rows = {} THEN 0
    ELSE LET r == CHOOSE x \in rows : TRUE IN f[r] + SumOver(f, rows \ {r})

Count == Cardinality(Present)
\* the sum and the sum of the squares of the values present
Total == SumOver([r \in 1..Len(series) |-> series[r].v], Present)
TotalSq == SumOver([r \in 1..Len(series) |-> series[r].v * series[r].v], Present)

\* the population variance of the values present is VarNum / Count^2
\* (the mean of the squares less the square of the mean)
VarNum == Count * TotalSq - Total * Total

\* the population standard deviation is zero or undefined: no value present, one
\* value present, or all values present identical
ZeroOrUndefinedStd ==
    \/ Count <= 1
    \/ \A a, b \in Present : series[a] = series[b]

\* |value - mean| / std > threshold2 / 2 for the value of row r, by squares:
\* (Count * value - Total)^2 / VarNum > threshold2^2 / 4
ZAbove(r) ==
    4 * (Count * series[r].v - Total) * (Count * series[r].v - Total)
        > threshold2 * threshold2 * VarNum

C9_Mask ==
    (ZReturned /\ ~ZeroOrUndefinedStd) =>
        \A r \in 1..Len(series) : mask[r] <=> (r \in Present /\ ZAbove(r))

\* [1, 1, 1, 1, 100] with threshold 1.5 marks exactly the row holding 100
C9_Witness ==
    /\ ZReturned
    /\ series = <<Num(1), Num(1), Num(1), Num(1), Num(100)>>
    /\ threshold2 = 3
    /\ mask = <<FALSE, FALSE, FALSE, FALSE, TRUE>>

====
